---- MODULE Spec2Model ----
(***************************************************************************)
(* Flanger (src/Flanger.h) and PitchShifter (src/PitchShifter.h): two      *)
(* delay-line effects over a per-channel circular delay buffer read at an  *)
(* offset that a periodic modulator computes.                              *)
(*                                                                         *)
(* Numbers.  float/double values are exact rationals <<n, d>> in lowest    *)
(* terms with d > 0; <<0, 0>> is NaN and <<1, 0>>, <<-1, 0>> are the       *)
(* infinities (IEEE division by zero).  Rounding of float arithmetic is    *)
(* not modelled.  sin is tabulated on a grid of 1/24 turn, rounded to      *)
(* sixteenths.                                                             *)
(***************************************************************************)
EXTENDS Integers, Sequences, FiniteSets, TLC

VARIABLES
    engine,     \* which class the host owns: "Flanger" or "PitchShifter"
    fl,         \* the Flanger object (its private members)
    ps,         \* the PitchShifter object (its private members)
    twin,       \* a second object of the same class (replay comparison)
    inbuffer,   \* the host's AudioBuffer<float> handed to process
    twinbuffer, \* the host's buffer handed to the second object
    pc,         \* position of the host in its calling sequence
    host,       \* what the host passed: initialize arguments, counters
    hist,       \* per channel: the most recent input samples of the stream
    stored,     \* per channel: the most recent pre-gain outputs of the stream
    last,       \* record of the most recent process / fillDelaybuffer call
    crashed     \* a write outside an allocation has happened

vars == <<engine, fl, ps, twin, inbuffer, twinbuffer, pc, host, hist, stored,
          last, crashed>>

-----------------------------------------------------------------------------
(* Bounds of the model.                                                    *)

\* initialize is called with SamplesPerBlockExpected in 1..MaxBlock
MaxBlock == 2
\* initialize is called with SampleRate in {100, 200, .., 100 * MaxRateUnits}
MaxRateUnits == 2
\* the host feeds at most MaxStream samples per channel and run
MaxStream == 4
\* the host calls at most MaxSetterCalls parameter setters per run
MaxSetterCalls == 2
\* in the unconstrained calling sequence the host makes at most MaxCalls calls
MaxCalls == 3
\* after the compared initialize of a replay the host makes at most
\* MaxReplayCalls calls
MaxReplayCalls == 2

\* hardcoded channel count of both engines
NumChannels == 2

Channels == 0 .. (NumChannels - 1)
BlockSizes == 1 .. MaxBlock
SampleRates == {100 * k : k \in 1 .. MaxRateUnits}
\* sample values of the source the host feeds; channel c carries the
\* source scaled by c + 1
SampleValues == {0, 1}
\* rates handed to setLFO / setLevel, in Hz: 1/12 and 2 cycles per sample
\* of the engines' sampleRate member
Rates == {3675, 88200}

-----------------------------------------------------------------------------
(* Rational arithmetic standing for float / double.                        *)

Abs(x) == IF x < 0 THEN -x ELSE x
Sign(x) == IF x < 0 THEN -1 ELSE IF x > 0 THEN 1 ELSE 0

RECURSIVE GCD(_, _)
GCD(a, b) == IF b = 0 THEN a ELSE GCD(b, a % b)

NaN == <<0, 0>>
RNorm(n, d) ==
    IF d = 0 THEN <<Sign(n), 0>>
    ELSE LET g == GCD(Abs(n), Abs(d))
             s == Sign(d)
         IN  <<(s * n) \div g, (s * d) \div g>>
IntR(k) == <<k, 1>>
Zero == IntR(0)
One == IntR(1)
Half == <<1, 2>>
IsFinite(a) == a[2] # 0
RAdd(a, b) ==
    IF IsFinite(a) /\ IsFinite(b)
    THEN RNorm(a[1] * b[2] + b[1] * a[2], a[2] * b[2])
    ELSE NaN
RNeg(a) == <<-a[1], a[2]>>
RSub(a, b) == RAdd(a, RNeg(b))
RMul(a, b) ==
    IF IsFinite(a) /\ IsFinite(b)
    THEN RNorm(a[1] * b[1], a[2] * b[2])
    ELSE NaN
\* IEEE division: x/0 is an infinity (0/0 NaN), x/inf is 0
RDiv(a, b) ==
    IF a = NaN \/ b = NaN THEN NaN
    ELSE IF ~IsFinite(b) THEN (IF IsFinite(a) THEN Zero ELSE NaN)
    ELSE IF ~IsFinite(a) THEN <<a[1] * (IF b[1] < 0 THEN -1 ELSE 1), 0>>
    ELSE RNorm(a[1] * b[2], a[2] * b[1])
RLess(a, b) == IsFinite(a) /\ IsFinite(b) /\ a[1] * b[2] < b[1] * a[2]
RGeq(a, b) == IsFinite(a) /\ IsFinite(b) /\ a[1] * b[2] >= b[1] * a[2]
\* static_cast<int>: truncation toward zero
Trunc(a) == Sign(a[1]) * (Abs(a[1]) \div a[2])
\* C++ integer division and remainder truncate toward zero
CDiv(a, b) == Sign(a) * Sign(b) * (Abs(a) \div Abs(b))
CMod(a, b) == a - b * CDiv(a, b)

\* sin(2 * pi * turns), tabulated at multiples of 1/24 turn in sixteenths
SinQuarter == <<0, 4, 8, 11, 14, 15, 16>>
SinTurns(turns) ==
    IF ~IsFinite(turns) THEN NaN
    ELSE LET k == ((turns[1] * 24) \div turns[2]) % 24
             q == IF k <= 6 THEN SinQuarter[k + 1]
                  ELSE IF k <= 12 THEN SinQuarter[12 - k + 1]
                  ELSE IF k <= 18 THEN -SinQuarter[k - 12 + 1]
                  ELSE -SinQuarter[24 - k + 1]
         IN  RNorm(q, 16)

-----------------------------------------------------------------------------
(* juce::AudioBuffer<float> with 2 channels.                               *)

\* setSize(2, n) followed by clear()
ClearedBuffer(n) ==
    [numSamples |-> n, data |-> [c \in Channels |-> [i \in 0 .. (n - 1) |-> Zero]]]
\* a default-constructed AudioBuffer
EmptyBuffer == ClearedBuffer(0)
InBounds(buf, i) == i >= 0 /\ i < buf.numSamples
\* a read through a raw pointer: outside the allocation it yields junk
ReadAt(buf, c, i, junk) == IF InBounds(buf, i) THEN buf.data[c][i] ELSE junk

\* copyFromWithRamp(destChannel, destStart, source, num, gain, gain), where
\* source points at sample srcStart of channel c of src.  Nothing is copied
\* unless num > 0.  Result: the buffer, the destination positions written and
\* the source positions read.
CopyFromWithRamp(dest, c, destStart, src, srcStart, num, gain, junk) ==
    LET written == IF num > 0 THEN destStart .. (destStart + num - 1) ELSE {}
        read == IF num > 0 THEN srcStart .. (srcStart + num - 1) ELSE {}
    IN  [buf |-> [dest EXCEPT !.data[c] =
                    [i \in 0 .. (dest.numSamples - 1) |->
                        IF i \in written
                        THEN RMul(gain, ReadAt(src, c, srcStart + (i - destStart), junk))
                        ELSE dest.data[c][i]]],
         written |-> written,
         read |-> read]

-----------------------------------------------------------------------------
(* Flanger.                                                                *)

\* #define TP_RANGE 0.010
TP_RANGE == <<1, 100>>

\* The members after construction.  transposition_range and delayBufferSize
\* have no initializer; no operation of the model reads them before
\* initialize has set them.
FlangerNew ==
    [sinePhase |-> [c \in Channels |-> Zero],
     sinefrequency |-> Zero,
     flangerDepth |-> Zero,
     feedbackLevel |-> Zero,
     sampleRate |-> IntR(44100),
     delayBufferWritePosition |-> 0,
     feedbackBufferWritePosition |-> 0,
     transposition_range |-> 0,
     delayBufferSize |-> 0,
     delayBuffer |-> EmptyBuffer,
     feedbackBuffer |-> EmptyBuffer]

Flanger_initialize(f, SamplesPerBlockExpected, SampleRate) ==
    LET tr == Trunc(RMul(TP_RANGE, IntR(SampleRate)))
        size == SamplesPerBlockExpected + tr
    IN  [f EXCEPT !.transposition_range = tr,
                  !.delayBufferSize = size,
                  !.delayBuffer = ClearedBuffer(size),
                  !.feedbackBuffer = ClearedBuffer(size)]

\* A faulty fillDelaybuffer, used to test FillWritesRun: the run continued at
\* index 0 is copied from the start of the source again.
FillSecondRunFromStart(f, bufferLength, channel, delayBufferLength, src, srcStart, gain, junk) ==
    LET wp == f.delayBufferWritePosition
    IN  IF delayBufferLength > bufferLength + wp
        THEN LET c1 == CopyFromWithRamp(f.delayBuffer, channel, wp, src, srcStart,
                                        bufferLength, gain, junk)
             IN  [f |-> [f EXCEPT !.delayBuffer = c1.buf],
                  written |-> c1.written, read |-> c1.read]
        ELSE LET delayBufferRemaining == delayBufferLength - wp
                 c1 == CopyFromWithRamp(f.delayBuffer, channel, wp, src, srcStart,
                                        delayBufferRemaining, gain, junk)
                 c2 == CopyFromWithRamp(c1.buf, channel, 0, src, srcStart,
                                        bufferLength - delayBufferRemaining, gain, junk)
             IN  [f |-> [f EXCEPT !.delayBuffer = c2.buf],
                  written |-> c1.written \cup c2.written,
                  read |-> c1.read \cup c2.read]

\* bufferData points at sample srcStart of channel `channel` of src
Flanger_fillDelaybuffer(f, bufferLength, channel, delayBufferLength, src, srcStart, gain, junk) ==
    LET wp == f.delayBufferWritePosition
    IN  IF delayBufferLength > bufferLength + wp
        THEN LET c1 == CopyFromWithRamp(f.delayBuffer, channel, wp, src, srcStart,
                                        bufferLength, gain, junk)
             IN  [f |-> [f EXCEPT !.delayBuffer = c1.buf],
                  written |-> c1.written, read |-> c1.read]
        ELSE LET delayBufferRemaining == delayBufferLength - wp
                 c1 == CopyFromWithRamp(f.delayBuffer, channel, wp, src, srcStart,
                                        delayBufferRemaining, gain, junk)
                 c2 == CopyFromWithRamp(c1.buf, channel, 0, src,
                                        srcStart + delayBufferRemaining,
                                        bufferLength - delayBufferRemaining, gain, junk)
             IN  [f |-> [f EXCEPT !.delayBuffer = c2.buf],
                  written |-> c1.written \cup c2.written,
                  read |-> c1.read \cup c2.read]

\* the phase after one advance of the sine modulator
Flanger_lfoPhase(f, channel) ==
    LET p == RAdd(f.sinePhase[channel], RDiv(f.sinefrequency, f.sampleRate))
    IN  IF RGeq(p, One) THEN RSub(p, One) ELSE p

\* the delay time lfo_sinewave returns at phase p
Flanger_lfoValue(maxDelayInSamples, p) ==
    RMul(IntR(CDiv(maxDelayInSamples, 2)), RAdd(SinTurns(p), One))

Flanger_lfo_sinewave(f, maxDelayInSamples, channel) ==
    LET p == Flanger_lfoPhase(f, channel)
    IN  [f |-> [f EXCEPT !.sinePhase[channel] = p],
         value |-> Flanger_lfoValue(maxDelayInSamples, p)]

\* delay[(readPosition + sample) % delayBufferSize]: the position read
ReadIndex(readPosition, sample, delayBufferSize) ==
    CMod(readPosition + sample, delayBufferSize)

\* (1.0 - fractionalDelay) * a + fractionalDelay * b
Lerp(fractionalDelay, a, b) ==
    RAdd(RMul(RSub(One, fractionalDelay), a), RMul(fractionalDelay, b))

Flanger_readPosition1(delayBufferSize, writePosition, delayTimeInSamples) ==
    CMod(delayBufferSize + writePosition - delayTimeInSamples, delayBufferSize)
Flanger_readPosition2(delayBufferSize, writePosition, delayTimeInSamples) ==
    CMod(delayBufferSize + writePosition - delayTimeInSamples - 1, delayBufferSize)

\* A faulty mix, used to test FlangerMixingRule: the dry input is added
\* whatever the feedback level.
MixAlwaysDry(feedbackLevel, flangerDepth, in, D, F) ==
    RAdd(RAdd(in, RMul(flangerDepth, D)), RMul(feedbackLevel, F))

\* the sum of one loop iteration, before DeviceGain
Flanger_mix(feedbackLevel, flangerDepth, in, D, F) ==
    IF feedbackLevel = Zero
    THEN RAdd(RAdd(in, RMul(flangerDepth, D)), RMul(feedbackLevel, F))
    ELSE RAdd(RMul(flangerDepth, D), RMul(feedbackLevel, F))

\* One iteration of the sample loop of process.  s: the object f, the host
\* buffer io, the per-sample trace and the positions touched so far.
Flanger_processSample(s, a, sample) ==
    LET size == s.f.delayBuffer.numSamples
        lfo == Flanger_lfo_sinewave(s.f, a.maxDelayInSamples, a.channel)
        delayTime == lfo.value
        delayTimeInSamples == Trunc(delayTime)
        fractionalDelay == RSub(delayTime, IntR(delayTimeInSamples))
        readPosition1 == Flanger_readPosition1(size, s.f.delayBufferWritePosition,
                                               delayTimeInSamples)
        readPosition2 == Flanger_readPosition2(size, s.f.delayBufferWritePosition,
                                               delayTimeInSamples)
        \* delay and feedback point at sample startSample of the channel
        i1 == a.startSample + ReadIndex(readPosition1, sample, size)
        i2 == a.startSample + ReadIndex(readPosition2, sample, size)
        d1 == ReadAt(s.f.delayBuffer, a.channel, i1, a.junk)
        d2 == ReadAt(s.f.delayBuffer, a.channel, i2, a.junk)
        f1 == ReadAt(s.f.feedbackBuffer, a.channel, i1, a.junk)
        f2 == ReadAt(s.f.feedbackBuffer, a.channel, i2, a.junk)
        io == a.startSample + sample
        in == ReadAt(s.io, a.channel, io, a.junk)
        output == Flanger_mix(s.f.feedbackLevel, s.f.flangerDepth, in,
                              Lerp(fractionalDelay, d1, d2),
                              Lerp(fractionalDelay, f1, f2))
        fw == CMod(s.f.feedbackBufferWritePosition + sample, size)
        emitted == RMul(a.DeviceGain, output)
    IN  [f |-> [lfo.f EXCEPT !.feedbackBuffer.data[a.channel] =
                    [i \in 0 .. (size - 1) |->
                        IF i = fw THEN output ELSE s.f.feedbackBuffer.data[a.channel][i]]],
         io |-> [s.io EXCEPT !.data[a.channel] =
                    [i \in 0 .. (s.io.numSamples - 1) |->
                        IF i = io THEN emitted ELSE s.io.data[a.channel][i]]],
         samples |-> Append(s.samples,
                        [in |-> in, delayTimes |-> <<delayTime>>,
                         d |-> delayTimeInSamples, frac |-> fractionalDelay,
                         f1 |-> f1, f2 |-> f2, output |-> output, emitted |-> emitted]),
         delayWritten |-> s.delayWritten,
         delayTouched |-> s.delayTouched \cup {i1, i2},
         feedbackTouched |-> s.feedbackTouched \cup {i1, i2, fw},
         inputTouched |-> s.inputTouched \cup {io}]

RECURSIVE Flanger_processLoop(_, _, _)
Flanger_processLoop(s, a, sample) ==
    IF sample < a.numSamples
    THEN Flanger_processLoop(Flanger_processSample(s, a, sample), a, sample + 1)
    ELSE s

\* process(inbuffer, startSample, numSamples, maxDelayInSamples, channel,
\* DeviceGain); junk is what a read outside an allocation yields.
Flanger_process(f, inbuf, startSample, numSamples, maxDelayInSamples, channel, DeviceGain, junk) ==
    LET size == f.delayBuffer.numSamples
        fill == Flanger_fillDelaybuffer(f, inbuf.numSamples, channel, size, inbuf,
                                        startSample, One, junk)
        a == [startSample |-> startSample, numSamples |-> numSamples,
              maxDelayInSamples |-> maxDelayInSamples, channel |-> channel,
              DeviceGain |-> DeviceGain, junk |-> junk]
    IN  Flanger_processLoop(
            [f |-> fill.f, io |-> inbuf, samples |-> <<>>,
             delayWritten |-> fill.written,
             delayTouched |-> fill.written \cup {}, feedbackTouched |-> {},
             inputTouched |-> fill.read], a, 0)

\* A faulty cursor advance, used to test DelayLineCorrect: one step too far.
AdjustDelayOneTooFar(f, numsamplesInBuffer) ==
    [f EXCEPT !.delayBufferWritePosition =
        CMod(f.delayBufferWritePosition + numsamplesInBuffer + 1, f.delayBufferSize)]

Flanger_adjustDelayBufferWritePosition(f, numsamplesInBuffer) ==
    [f EXCEPT !.delayBufferWritePosition =
        CMod(f.delayBufferWritePosition + numsamplesInBuffer, f.delayBufferSize)]

Flanger_adjustFeedBackBufferWritePosition(f, numsamplesInBuffer) ==
    [f EXCEPT !.feedbackBufferWritePosition =
        CMod(f.feedbackBufferWritePosition + numsamplesInBuffer, f.delayBufferSize)]

Flanger_setDepth(f, depth) == [f EXCEPT !.flangerDepth = depth]
Flanger_setFeedback(f, feedback) == [f EXCEPT !.feedbackLevel = feedback]
Flanger_setLFO(f, rate) == [f EXCEPT !.sinefrequency = rate]

-----------------------------------------------------------------------------
(* PitchShifter.                                                           *)

PitchShifterNew ==
    [sawtoothPhase1 |-> [c \in Channels |-> Zero],
     sawtoothPhase2 |-> [c \in Channels |-> Half],
     sawtoothFrequency |-> Zero,
     sampleRate |-> IntR(44100),
     delayBufferWritePosition |-> 0,
     transposition_range |-> 0,
     delayBufferSize |-> 0,
     pitchUporDown |-> FALSE,
     delayBuffer |-> EmptyBuffer]

PitchShifter_initialize(p, SamplesPerBlockExpected, SampleRate) ==
    LET tr == Trunc(RMul(TP_RANGE, IntR(SampleRate)))
        size == SamplesPerBlockExpected + tr
    IN  [p EXCEPT !.transposition_range = tr,
                  !.delayBufferSize = size,
                  !.delayBuffer = ClearedBuffer(size)]

PitchShifter_fillDelaybuffer(p, bufferLength, channel, delayBufferLength, src, srcStart, gain, junk) ==
    LET wp == p.delayBufferWritePosition
    IN  IF delayBufferLength > bufferLength + wp
        THEN LET c1 == CopyFromWithRamp(p.delayBuffer, channel, wp, src, srcStart,
                                        bufferLength, gain, junk)
             IN  [f |-> [p EXCEPT !.delayBuffer = c1.buf],
                  written |-> c1.written, read |-> c1.read]
        ELSE LET delayBufferRemaining == delayBufferLength - wp
                 c1 == CopyFromWithRamp(p.delayBuffer, channel, wp, src, srcStart,
                                        delayBufferRemaining, gain, junk)
                 c2 == CopyFromWithRamp(c1.buf, channel, 0, src,
                                        srcStart + delayBufferRemaining,
                                        bufferLength - delayBufferRemaining, gain, junk)
             IN  [f |-> [p EXCEPT !.delayBuffer = c2.buf],
                  written |-> c1.written \cup c2.written,
                  read |-> c1.read \cup c2.read]

\* a sawtooth phase after one advance: phase += 1 / (sampleRate / frequency),
\* minus 1 once when that reaches 1
PitchShifter_sawtoothPhase(p, phase) ==
    LET samplespercycle == RDiv(p.sampleRate, p.sawtoothFrequency)
        q == RAdd(phase, RDiv(One, samplespercycle))
    IN  IF RGeq(q, One) THEN RSub(q, One) ELSE q

\* the delay time a sawtooth returns at phase q
PitchShifter_sawtoothValue(p, maxDelayInSamples, q) ==
    IF p.pitchUporDown = FALSE
    THEN RMul(IntR(maxDelayInSamples), q)
    ELSE RMul(IntR(maxDelayInSamples), RSub(One, q))

PitchShifter_sawtooth1(p, maxDelayInSamples, channel) ==
    LET q == PitchShifter_sawtoothPhase(p, p.sawtoothPhase1[channel])
    IN  [f |-> [p EXCEPT !.sawtoothPhase1[channel] = q],
         value |-> PitchShifter_sawtoothValue(p, maxDelayInSamples, q)]

PitchShifter_sawtooth2(p, maxDelayInSamples, channel) ==
    LET q == PitchShifter_sawtoothPhase(p, p.sawtoothPhase2[channel])
    IN  [f |-> [p EXCEPT !.sawtoothPhase2[channel] = q],
         value |-> PitchShifter_sawtoothValue(p, maxDelayInSamples, q)]

PitchShifter_readPosition(delayBufferSize, writePosition, delayTime) ==
    CMod(delayBufferSize + writePosition - delayTime, delayBufferSize)

\* sin(double_Pi * delaySamples / maxDelayInSamples)
PitchShifter_gain(delaySamples, maxDelayInSamples) ==
    SinTurns(RDiv(delaySamples, IntR(2 * maxDelayInSamples)))

PitchShifter_processSample(s, a, sample) ==
    LET size == s.f.delayBuffer.numSamples
        s1 == PitchShifter_sawtooth1(s.f, a.maxDelayInSamples, a.channel)
        s2 == PitchShifter_sawtooth2(s1.f, a.maxDelayInSamples, a.channel)
        delaySamples1 == s1.value
        delaySamples2 == s2.value
        delayTime1 == Trunc(delaySamples1)
        delayTime2 == Trunc(delaySamples2)
        readPosition1 == PitchShifter_readPosition(size, s.f.delayBufferWritePosition,
                                                   delayTime1)
        readPosition2 == PitchShifter_readPosition(size, s.f.delayBufferWritePosition,
                                                   delayTime2)
        gain1 == PitchShifter_gain(delaySamples1, a.maxDelayInSamples)
        gain2 == PitchShifter_gain(delaySamples2, a.maxDelayInSamples)
        i1 == a.startSample + ReadIndex(readPosition1, sample, size)
        i2 == a.startSample + ReadIndex(readPosition2, sample, size)
        d1 == ReadAt(s.f.delayBuffer, a.channel, i1, a.junk)
        d2 == ReadAt(s.f.delayBuffer, a.channel, i2, a.junk)
        io == a.startSample + sample
        emitted == RMul(a.DeviceGain, RAdd(RMul(gain1, d1), RMul(gain2, d2)))
    IN  [f |-> s2.f,
         io |-> [s.io EXCEPT !.data[a.channel] =
                    [i \in 0 .. (s.io.numSamples - 1) |->
                        IF i = io THEN emitted ELSE s.io.data[a.channel][i]]],
         samples |-> Append(s.samples,
                        [delayTimes |-> <<delaySamples1, delaySamples2>>,
                         d1 |-> delayTime1, d2 |-> delayTime2,
                         gain1 |-> gain1, gain2 |-> gain2, emitted |-> emitted]),
         delayWritten |-> s.delayWritten,
         delayTouched |-> s.delayTouched \cup {i1, i2},
         feedbackTouched |-> {},
         inputTouched |-> s.inputTouched \cup {io}]

RECURSIVE PitchShifter_processLoop(_, _, _)
PitchShifter_processLoop(s, a, sample) ==
    IF sample < a.numSamples
    THEN PitchShifter_processLoop(PitchShifter_processSample(s, a, sample), a, sample + 1)
    ELSE s

PitchShifter_process(p, inbuf, startSample, numSamples, maxDelayInSamples, channel, deviceGain, junk) ==
    LET size == p.delayBuffer.numSamples
        fill == PitchShifter_fillDelaybuffer(p, inbuf.numSamples, channel, size, inbuf,
                                             startSample, One, junk)
        a == [startSample |-> startSample, numSamples |-> numSamples,
              maxDelayInSamples |-> maxDelayInSamples, channel |-> channel,
              DeviceGain |-> deviceGain, junk |-> junk]
    IN  PitchShifter_processLoop(
            [f |-> fill.f, io |-> inbuf, samples |-> <<>>,
             delayWritten |-> fill.written,
             delayTouched |-> fill.written \cup {}, feedbackTouched |-> {},
             inputTouched |-> fill.read], a, 0)

PitchShifter_adjustDelayBufferWritePosition(p, numsamplesInBuffer) ==
    [p EXCEPT !.delayBufferWritePosition =
        CMod(p.delayBufferWritePosition + numsamplesInBuffer, p.delayBufferSize)]

PitchShifter_setUp(p) == [p EXCEPT !.pitchUporDown = TRUE]
PitchShifter_setDown(p) == [p EXCEPT !.pitchUporDown = FALSE]
PitchShifter_setLevel(p, rate) == [p EXCEPT !.sawtoothFrequency = rate]

-----------------------------------------------------------------------------
(* The host: one engine object, driven through its public methods.         *)

\* the values the host hands to setDepth and setFeedback, and its DeviceGain
Depths == {Half}
Feedbacks == {Half}
Gains == {Half}
JunkValues == {IntR(v) : v \in SampleValues}
RateValues == {IntR(r) : r \in Rates}

Obj == IF engine = "Flanger" THEN fl ELSE ps

\* the object o replaces the engine the host owns
SetObj(o) ==
    /\ fl' = IF engine = "Flanger" THEN o ELSE fl
    /\ ps' = IF engine = "Flanger" THEN ps ELSE o

New(e) == IF e = "Flanger" THEN FlangerNew ELSE PitchShifterNew
DoInitialize(e, o, B, SR) ==
    IF e = "Flanger" THEN Flanger_initialize(o, B, SR)
    ELSE PitchShifter_initialize(o, B, SR)
DoProcess(e, o, inbuf, startSample, numSamples, maxDelay, channel, gain, junk) ==
    IF e = "Flanger"
    THEN Flanger_process(o, inbuf, startSample, numSamples, maxDelay, channel, gain, junk)
    ELSE PitchShifter_process(o, inbuf, startSample, numSamples, maxDelay, channel, gain, junk)
DoAdjustDelay(e, o, n) ==
    IF e = "Flanger" THEN Flanger_adjustDelayBufferWritePosition(o, n)
    ELSE PitchShifter_adjustDelayBufferWritePosition(o, n)

\* the modulator phases of channel c and the modulator rate of an object
Phases(e, o, c) ==
    IF e = "Flanger" THEN <<o.sinePhase[c]>>
    ELSE <<o.sawtoothPhase1[c], o.sawtoothPhase2[c]>>
Rate(e, o) == IF e = "Flanger" THEN o.sinefrequency ELSE o.sawtoothFrequency

\* a host buffer of len samples per channel holding the samples x[c][i]
HostBuffer(len, x) ==
    [numSamples |-> len,
     data |-> [c \in Channels |-> [i \in 0 .. (len - 1) |-> IntR((c + 1) * x[i])]]]

\* the window w of a stream after the samples new entered it
Shift(w, new) == SubSeq(w \o new, Len(new) + 1, Len(w) + Len(new))
Zeros(n) == [i \in 1 .. n |-> Zero]
\* the sample `back` positions before the newest one of window w
Back(w, back) == w[Len(w) - back]

NoCall ==
    [kind |-> "none", channel |-> 0, startSample |-> 0, numSamples |-> 0,
     length |-> 0, maxDelayInSamples |-> 0, gain |-> One, samples |-> <<>>,
     delayTouched |-> {}, feedbackTouched |-> {}, inputTouched |-> {},
     phase0 |-> <<>>, rate |-> Zero, capacity |-> 0]

\* the record of a process call that started on object o and ended as r
CallRecord(o, inbuf, startSample, numSamples, maxDelay, channel, gain, r) ==
    [kind |-> "process", channel |-> channel, startSample |-> startSample,
     numSamples |-> numSamples, length |-> inbuf.numSamples,
     maxDelayInSamples |-> maxDelay, gain |-> gain, samples |-> r.samples,
     delayTouched |-> r.delayTouched, feedbackTouched |-> r.feedbackTouched,
     inputTouched |-> r.inputTouched,
     phase0 |-> Phases(engine, o, channel), rate |-> Rate(engine, o),
     capacity |-> o.delayBuffer.numSamples]

\* a write of the call landed outside the delay buffer or the host buffer
WroteOutside(o, inbuf, startSample, numSamples, r) ==
    \/ \E i \in r.delayWritten : ~InBounds(o.delayBuffer, i)
    \/ \E i \in 0 .. (numSamples - 1) : ~InBounds(inbuf, startSample + i)

Init ==
    /\ engine \in {"Flanger", "PitchShifter"}
    /\ fl = FlangerNew
    /\ ps = PitchShifterNew
    /\ twin = New(engine)
    /\ inbuffer = EmptyBuffer
    /\ twinbuffer = EmptyBuffer
    /\ pc = "new"
    /\ host = [SamplesPerBlockExpected |-> 0, SampleRate |-> 0, fed |-> 0,
               setterCalls |-> 0, calls |-> 0, N |-> 0, channel |-> 0,
               maxDelay |-> 0, gain |-> One, silent |-> TRUE, agreed |-> TRUE]
    /\ hist = [c \in Channels |-> <<>>]
    /\ stored = [c \in Channels |-> <<>>]
    /\ last = NoCall
    /\ crashed = FALSE

-----------------------------------------------------------------------------
(* The block protocol: initialize once, then per block process every       *)
(* channel with startSample = 0 and advance the cursors once.              *)

Initialize ==
    /\ pc = "new"
    /\ \E B \in BlockSizes, SR \in SampleRates :
        LET o == DoInitialize(engine, Obj, B, SR)
        IN  /\ SetObj(o)
            /\ \E maxDelay \in 0 .. o.transposition_range, gain \in Gains :
                 host' = [host EXCEPT !.SamplesPerBlockExpected = B, !.SampleRate = SR,
                                      !.maxDelay = maxDelay, !.gain = gain]
            /\ hist' = [c \in Channels |-> Zeros(o.delayBufferSize + 1)]
            /\ stored' = [c \in Channels |-> Zeros(o.delayBufferSize + 1)]
    /\ pc' = "idle"
    /\ UNCHANGED <<engine, twin, inbuffer, twinbuffer, last, crashed>>

\* the host callback receives a block of N <= SamplesPerBlockExpected samples
Supply ==
    /\ pc = "idle"
    /\ \E N \in 1 .. host.SamplesPerBlockExpected :
       \E x \in [0 .. (N - 1) -> SampleValues] :
            /\ host.fed + N <= MaxStream
            /\ inbuffer' = HostBuffer(N, x)
            /\ host' = [host EXCEPT !.fed = @ + N, !.N = N, !.channel = 0,
                            !.silent = @ /\ \A i \in 0 .. (N - 1) : x[i] = 0]
    /\ pc' = "process"
    /\ UNCHANGED <<engine, fl, ps, twin, twinbuffer, hist, stored, last, crashed>>

Process ==
    /\ pc = "process"
    /\ ~crashed
    /\ \E junk \in JunkValues :
        \E r \in {DoProcess(engine, Obj, inbuffer, 0, host.N, host.maxDelay,
                             host.channel, host.gain, junk)} :
        LET c == host.channel
        IN  /\ SetObj(r.f)
            /\ inbuffer' = r.io
            /\ last' = CallRecord(Obj, inbuffer, 0, host.N, host.maxDelay, c,
                                  host.gain, r)
            /\ hist' = [hist EXCEPT ![c] =
                            Shift(@, [i \in 1 .. host.N |-> inbuffer.data[c][i - 1]])]
            /\ stored' = IF engine = "Flanger"
                         THEN [stored EXCEPT ![c] =
                                 Shift(@, [i \in 1 .. host.N |-> r.samples[i].output])]
                         ELSE stored
            /\ crashed' = WroteOutside(Obj, inbuffer, 0, host.N, r)
    /\ IF host.channel + 1 < NumChannels
       THEN /\ host' = [host EXCEPT !.channel = @ + 1]
            /\ pc' = "process"
       ELSE /\ host' = host
            /\ pc' = "adjustDelay"
    /\ UNCHANGED <<engine, twin, twinbuffer>>

AdjustDelay ==
    /\ pc = "adjustDelay"
    /\ SetObj(DoAdjustDelay(engine, Obj, host.N))
    /\ pc' = IF engine = "Flanger" THEN "adjustFeedback" ELSE "idle"
    /\ UNCHANGED <<engine, twin, inbuffer, twinbuffer, host, hist, stored, last, crashed>>

AdjustFeedback ==
    /\ pc = "adjustFeedback"
    /\ fl' = Flanger_adjustFeedBackBufferWritePosition(fl, host.N)
    /\ pc' = "idle"
    /\ UNCHANGED <<engine, ps, twin, inbuffer, twinbuffer, host, hist, stored, last, crashed>>

\* the parameter setters, called between blocks (block protocol) or between
\* any two calls
CanSet ==
    /\ pc = "idle" \/ (pc = "free" /\ host.calls < MaxCalls)
    /\ host.setterCalls < MaxSetterCalls
Counted == host' = [host EXCEPT !.setterCalls = @ + 1, !.calls = @ + 1]
SetterFrame == UNCHANGED <<engine, twin, inbuffer, twinbuffer, pc, hist, stored, last, crashed>>

SetDepth ==
    /\ CanSet /\ engine = "Flanger"
    /\ \E depth \in Depths : fl' = Flanger_setDepth(fl, depth)
    /\ Counted /\ SetterFrame /\ UNCHANGED ps
SetFeedback ==
    /\ CanSet /\ engine = "Flanger"
    /\ \E feedback \in Feedbacks : fl' = Flanger_setFeedback(fl, feedback)
    /\ Counted /\ SetterFrame /\ UNCHANGED ps
SetLFO ==
    /\ CanSet /\ engine = "Flanger"
    /\ \E rate \in RateValues : fl' = Flanger_setLFO(fl, rate)
    /\ Counted /\ SetterFrame /\ UNCHANGED ps
SetUp ==
    /\ CanSet /\ engine = "PitchShifter"
    /\ ps' = PitchShifter_setUp(ps)
    /\ Counted /\ SetterFrame /\ UNCHANGED fl
SetDown ==
    /\ CanSet /\ engine = "PitchShifter"
    /\ ps' = PitchShifter_setDown(ps)
    /\ Counted /\ SetterFrame /\ UNCHANGED fl
SetLevel ==
    /\ CanSet /\ engine = "PitchShifter"
    /\ \E rate \in RateValues : ps' = PitchShifter_setLevel(ps, rate)
    /\ Counted /\ SetterFrame /\ UNCHANGED fl

Next ==
    \/ Initialize
    \/ Supply
    \/ Process
    \/ AdjustDelay
    \/ AdjustFeedback
    \/ SetDepth
    \/ SetFeedback
    \/ SetLFO
    \/ SetUp
    \/ SetDown
    \/ SetLevel

Spec == Init /\ [][Next]_vars

-----------------------------------------------------------------------------
(* Claims about the block protocol (Spec).                                 *)

\* channel c of the current block has been processed and the cursors have
\* not been advanced yet
Processed(c) == pc = "adjustDelay" \/ (pc = "process" /\ c < host.channel)

\* the position of the delay buffer the engine reads for sample i of the
\* block at integer delay d
DelayCell(e, o, d, i) ==
    IF e = "Flanger"
    THEN ReadIndex(Flanger_readPosition1(o.delayBuffer.numSamples,
                                         o.delayBufferWritePosition, d),
                   i, o.delayBuffer.numSamples)
    ELSE ReadIndex(PitchShifter_readPosition(o.delayBuffer.numSamples,
                                             o.delayBufferWritePosition, d),
                   i, o.delayBuffer.numSamples)

\* C3: under the block protocol, the delay-buffer cell read for sample i of
\* the current block at integer delay d, 0 <= d <= transposition range,
\* holds the input sample that entered the channel d samples before sample
\* i (0 before the start of the stream); for the Flanger also the second
\* read, one sample further behind, of every delay d - 1.
DelayLineCorrect ==
    \A c \in Channels :
        Processed(c) =>
            \A i \in 0 .. (host.N - 1) : \A d \in 0 .. Obj.transposition_range :
                /\ Obj.delayBuffer.data[c][DelayCell(engine, Obj, d, i)]
                       = Back(hist[c], (host.N - 1 - i) + d)
                /\ (engine = "Flanger" /\ d >= 1) =>
                       fl.delayBuffer.data[c][
                           ReadIndex(Flanger_readPosition2(fl.delayBuffer.numSamples,
                                         fl.delayBufferWritePosition, d - 1),
                                     i, fl.delayBuffer.numSamples)]
                           = Back(hist[c], (host.N - 1 - i) + d)

\* C3 witness: a block that was split at the buffer tail has been written,
\* and a read at delay d > i reaches a nonzero sample of an earlier block
DelayLineWitness ==
    /\ pc = "adjustDelay"
    /\ Obj.delayBufferWritePosition + host.N > Obj.delayBuffer.numSamples
    /\ \E i \in 0 .. (host.N - 1) : \E d \in 0 .. Obj.transposition_range :
        /\ d > i
        /\ Back(hist[1], (host.N - 1 - i) + d) # Zero
        /\ Obj.delayBuffer.data[1][DelayCell(engine, Obj, d, i)] # Zero

\* the delay-buffer sample k positions behind sample i of the current block
Behind(c, i, k) ==
    fl.delayBuffer.data[c][
        (fl.delayBufferWritePosition + i - k + 2 * fl.delayBuffer.numSamples)
            % fl.delayBuffer.numSamples]

\* the value the mixing rule gives for sample i (1-based) of the last call
MixRule(i) ==
    LET smp == last.samples[i]
        D == Lerp(smp.frac, Behind(last.channel, i - 1, smp.d),
                  Behind(last.channel, i - 1, smp.d + 1))
        F == Lerp(smp.frac, smp.f1, smp.f2)
    IN  IF fl.feedbackLevel = Zero
        THEN RAdd(smp.in, RMul(fl.flangerDepth, D))
        ELSE RAdd(RMul(fl.flangerDepth, D), RMul(fl.feedbackLevel, F))

\* C4: every sample the Flanger emits is outputGain * (input + depth * D)
\* when feedbackLevel = 0 and outputGain * (depth * D + feedbackLevel * F)
\* otherwise, D and F the linear interpolations (weights 1 - f, f) of the
\* delay buffer d and d + 1 samples behind and of the two feedback reads; the
\* value stored in the feedback buffer is that sum before the gain.
FlangerMixingRule ==
    (engine = "Flanger" /\ last.kind = "process" /\ Processed(last.channel)) =>
        \A i \in 1 .. Len(last.samples) :
            /\ last.samples[i].emitted = RMul(last.gain, MixRule(i))
            /\ inbuffer.data[last.channel][i - 1] = RMul(last.gain, MixRule(i))
            /\ fl.feedbackBuffer.data[last.channel][
                   (fl.feedbackBufferWritePosition + i - 1) % fl.feedbackBuffer.numSamples]
                   = MixRule(i)

\* C4 witness: a sample emitted with feedback on, a fractional delay, two
\* different feedback reads and a nonzero result
FlangerMixingWitness ==
    /\ engine = "Flanger" /\ last.kind = "process" /\ Processed(last.channel)
    /\ fl.feedbackLevel # Zero
    /\ \E i \in 1 .. Len(last.samples) :
        /\ last.samples[i].frac # Zero
        /\ last.samples[i].f1 # last.samples[i].f2
        /\ last.samples[i].emitted # Zero

AllZero(buf) == \A c \in Channels : \A i \in 0 .. (buf.numSamples - 1) : buf.data[c][i] = Zero

\* C5: while every input block fed so far is all zero and
\* 0 < maxDelayInSamples <= transposition range, every emitted sample is 0
\* and every cell of the delay buffer and of the feedback buffer is 0.
SilencePreserved ==
    (host.silent /\ host.maxDelay > 0) =>
        /\ \A i \in 1 .. Len(last.samples) : last.samples[i].emitted = Zero
        /\ AllZero(Obj.delayBuffer)
        /\ engine = "Flanger" => AllZero(fl.feedbackBuffer)

\* C8: under the block protocol with equal cursors, the feedback reads of
\* sample i at offsets k = d and k = d + 1, d < transposition range, return
\* the pre-gain output stored k samples before sample i (0 before the start
\* of the stream), never a value stored a ring lap earlier.  At k = 0 the
\* output of sample i itself is not stored yet when the read happens: there
\* the formula accepts that output as well as 0.
FeedbackReadsStored ==
    (engine = "Flanger" /\ last.kind = "process") =>
        \A i \in 1 .. Len(last.samples) :
            LET smp == last.samples[i]
                age == Len(last.samples) - i
            IN  smp.d < fl.transposition_range =>
                    /\ smp.d >= 1 => smp.f1 = Back(stored[last.channel], age + smp.d)
                    /\ smp.d = 0 => smp.f1 \in {Zero, smp.output}
                    /\ smp.f2 = Back(stored[last.channel], age + smp.d + 1)

\* a phase after n advances by inc, each wrapped once at 1
RECURSIVE AdvanceN(_, _, _)
AdvanceN(phase, inc, n) ==
    IF n = 0 THEN phase
    ELSE LET q == RAdd(phase, inc)
         IN  AdvanceN(IF RGeq(q, One) THEN RSub(q, One) ELSE q, inc, n - 1)

\* C10: each advance of a modulator adds frequency / sampleRate to its
\* phase, sampleRate the value passed to initialize.
PhaseFollowsSampleRate ==
    last.kind = "process" =>
        \A k \in 1 .. Len(last.phase0) :
            Phases(engine, Obj, last.channel)[k]
                = AdvanceN(last.phase0[k], RDiv(last.rate, IntR(host.SampleRate)),
                           last.numSamples)

-----------------------------------------------------------------------------
(* Any calling sequence: after a first initialize the host calls           *)
(* initialize, process, the cursor adjustments and the setters in any      *)
(* order, process with any region of a buffer no longer than the expected  *)
(* block size.                                                             *)

FreeFrame == UNCHANGED <<engine, twin, twinbuffer, hist, stored>>
CanCall == ~crashed /\ host.calls < MaxCalls

FreeInitialize ==
    /\ pc \in {"new", "free"}
    /\ CanCall
    /\ \E B \in BlockSizes, SR \in SampleRates :
        /\ SetObj(DoInitialize(engine, Obj, B, SR))
        /\ host' = [host EXCEPT !.SamplesPerBlockExpected = B, !.SampleRate = SR,
                                !.calls = @ + 1]
    /\ pc' = "free"
    /\ UNCHANGED <<inbuffer, last, crashed>>
    /\ FreeFrame

FreeProcess ==
    /\ pc = "free"
    /\ CanCall
    /\ \E len \in 1 .. host.SamplesPerBlockExpected, v \in SampleValues :
       \E startSample \in 0 .. len, maxDelay \in 0 .. Obj.transposition_range :
       \E numSamples \in 0 .. (len - startSample), channel \in Channels :
       \E gain \in Gains, junk \in JunkValues :
       \E buf \in {HostBuffer(len, [i \in 0 .. (len - 1) |-> v])} :
       \E r \in {DoProcess(engine, Obj, buf, startSample, numSamples, maxDelay,
                           channel, gain, junk)} :
            /\ SetObj(r.f)
            /\ inbuffer' = r.io
            /\ last' = CallRecord(Obj, buf, startSample, numSamples, maxDelay,
                                  channel, gain, r)
            /\ crashed' = WroteOutside(Obj, buf, startSample, numSamples, r)
    /\ host' = [host EXCEPT !.calls = @ + 1]
    /\ pc' = "free"
    /\ FreeFrame

FreeAdjustDelay ==
    /\ pc = "free"
    /\ CanCall
    /\ \E n \in 0 .. MaxBlock : SetObj(DoAdjustDelay(engine, Obj, n))
    /\ host' = [host EXCEPT !.calls = @ + 1]
    /\ UNCHANGED <<pc, inbuffer, last, crashed>>
    /\ FreeFrame

FreeAdjustFeedback ==
    /\ pc = "free"
    /\ CanCall
    /\ engine = "Flanger"
    /\ \E n \in 0 .. MaxBlock : fl' = Flanger_adjustFeedBackBufferWritePosition(fl, n)
    /\ host' = [host EXCEPT !.calls = @ + 1]
    /\ UNCHANGED <<ps, pc, inbuffer, last, crashed>>
    /\ FreeFrame

NextFree ==
    \/ FreeInitialize
    \/ FreeProcess
    \/ FreeAdjustDelay
    \/ FreeAdjustFeedback
    \/ SetDepth
    \/ SetFeedback
    \/ SetLFO
    \/ SetUp
    \/ SetDown
    \/ SetLevel

SpecFree == Init /\ [][NextFree]_vars

\* C1: after the first initialize, whatever is called next, the delay write
\* cursor (and the Flanger's feedback write cursor) is in [0, capacity),
\* capacity the current size of the delay buffer.
CursorInRange ==
    pc = "free" =>
        /\ Obj.delayBufferWritePosition >= 0
        /\ Obj.delayBufferWritePosition < Obj.delayBuffer.numSamples
        /\ engine = "Flanger" =>
            /\ fl.feedbackBufferWritePosition >= 0
            /\ fl.feedbackBufferWritePosition < fl.delayBuffer.numSamples

\* C7: a process call with startSample >= 0, startSample + numSamples <=
\* length of inbuffer <= expected block size and 0 <= maxDelayInSamples <=
\* transposition range touches the delay and feedback buffers only in
\* [0, capacity) and the input array only in [0, length).
ProcessAccessInBounds ==
    last.kind = "process" =>
        /\ last.delayTouched \subseteq 0 .. (last.capacity - 1)
        /\ last.feedbackTouched \subseteq 0 .. (last.capacity - 1)
        /\ last.inputTouched \subseteq 0 .. (last.length - 1)

\* C9: every modulator phase is in [0, 1), and every delay time a modulator
\* returned is in [0, maxDelayInSamples].
PhaseInRange ==
    /\ \A c \in Channels : \A k \in 1 .. Len(Phases(engine, Obj, c)) :
        /\ RGeq(Phases(engine, Obj, c)[k], Zero)
        /\ RLess(Phases(engine, Obj, c)[k], One)
    /\ \A i \in 1 .. Len(last.samples) :
       \A k \in 1 .. Len(last.samples[i].delayTimes) :
        /\ RGeq(last.samples[i].delayTimes[k], Zero)
        /\ RGeq(IntR(last.maxDelayInSamples), last.samples[i].delayTimes[k])

-----------------------------------------------------------------------------
(* Replay: the host's object has been used in any way (the calls of        *)
(* NextFree), the second object is newly constructed; both are then        *)
(* initialized with the same arguments and receive the same calls.         *)

\* the parameters of an object that the setters set
Parameters(e, o) ==
    IF e = "Flanger" THEN <<o.sinefrequency, o.flangerDepth, o.feedbackLevel>>
    ELSE <<o.sawtoothFrequency, o.pitchUporDown>>

\* the setter calls the host can make on an engine of class e
SetterCalls(e) ==
    IF e = "Flanger"
    THEN ({"setDepth"} \X Depths) \cup ({"setFeedback"} \X Feedbacks)
            \cup ({"setLFO"} \X RateValues)
    ELSE ({"setUp", "setDown"} \X {Zero}) \cup ({"setLevel"} \X RateValues)

DoSet(o, call) ==
    CASE call[1] = "setDepth" -> Flanger_setDepth(o, call[2])
      [] call[1] = "setFeedback" -> Flanger_setFeedback(o, call[2])
      [] call[1] = "setLFO" -> Flanger_setLFO(o, call[2])
      [] call[1] = "setUp" -> PitchShifter_setUp(o)
      [] call[1] = "setDown" -> PitchShifter_setDown(o)
      [] call[1] = "setLevel" -> PitchShifter_setLevel(o, call[2])

ReplayFrame == UNCHANGED <<engine, hist, stored, crashed>>

ReplayInitialize ==
    /\ pc \in {"new", "free"}
    /\ ~crashed
    /\ \E B \in BlockSizes, SR \in SampleRates :
        /\ SetObj(DoInitialize(engine, Obj, B, SR))
        /\ twin' = DoInitialize(engine, twin, B, SR)
        /\ host' = [host EXCEPT !.SamplesPerBlockExpected = B, !.SampleRate = SR,
                                !.calls = 0, !.setterCalls = 0]
    /\ inbuffer' = EmptyBuffer
    /\ twinbuffer' = EmptyBuffer
    /\ last' = NoCall
    /\ pc' = "replay"
    /\ ReplayFrame

ReplaySetter ==
    /\ pc = "replay"
    /\ host.calls < MaxReplayCalls
    /\ \E call \in SetterCalls(engine) :
        /\ SetObj(DoSet(Obj, call))
        /\ twin' = DoSet(twin, call)
    /\ host' = [host EXCEPT !.calls = @ + 1]
    /\ UNCHANGED <<pc, inbuffer, twinbuffer, last>>
    /\ ReplayFrame

\* process with startSample = 0 on a whole block, the same for both objects
ReplayProcess ==
    /\ pc = "replay"
    /\ host.calls < MaxReplayCalls
    /\ \E N \in 1 .. host.SamplesPerBlockExpected :
       \E maxDelay \in 0 .. Obj.transposition_range, channel \in Channels :
       \E gain \in Gains, junk \in JunkValues :
       \E buf \in {HostBuffer(N, [i \in 0 .. (N - 1) |-> 1])} :
       \E r \in {DoProcess(engine, Obj, buf, 0, N, maxDelay, channel, gain, junk)} :
       \E t \in {DoProcess(engine, twin, buf, 0, N, maxDelay, channel, gain, junk)} :
            /\ SetObj(r.f)
            /\ twin' = t.f
            /\ inbuffer' = r.io
            /\ twinbuffer' = t.io
            /\ last' = CallRecord(Obj, buf, 0, N, maxDelay, channel, gain, r)
    /\ host' = [host EXCEPT !.calls = @ + 1,
                    !.agreed = @ /\ Parameters(engine, Obj) = Parameters(engine, twin)]
    /\ pc' = "replay"
    /\ ReplayFrame

ReplayAdjustDelay ==
    /\ pc = "replay"
    /\ host.calls < MaxReplayCalls
    /\ \E n \in 0 .. MaxBlock :
        /\ SetObj(DoAdjustDelay(engine, Obj, n))
        /\ twin' = DoAdjustDelay(engine, twin, n)
    /\ host' = [host EXCEPT !.calls = @ + 1]
    /\ UNCHANGED <<pc, inbuffer, twinbuffer, last>>
    /\ ReplayFrame

ReplayAdjustFeedback ==
    /\ pc = "replay"
    /\ host.calls < MaxReplayCalls
    /\ engine = "Flanger"
    /\ \E n \in 0 .. MaxBlock :
        /\ fl' = Flanger_adjustFeedBackBufferWritePosition(fl, n)
        /\ twin' = Flanger_adjustFeedBackBufferWritePosition(twin, n)
    /\ host' = [host EXCEPT !.calls = @ + 1]
    /\ UNCHANGED <<ps, pc, inbuffer, twinbuffer, last>>
    /\ ReplayFrame

NextReplay ==
    \/ NextFree
    \/ ReplayInitialize
    \/ ReplaySetter
    \/ ReplayProcess
    \/ ReplayAdjustDelay
    \/ ReplayAdjustFeedback

SpecReplay == Init /\ [][NextReplay]_vars

\* C6: after initialize with the same arguments and the same setter,
\* process and commit calls, an object that was used before that initialize
\* emits what a newly constructed one emits (here even granted that both
\* had the same parameter values at every process call).
ReplayDeterminism ==
    (pc = "replay" /\ host.agreed) => inbuffer = twinbuffer

-----------------------------------------------------------------------------
(* fillDelaybuffer on its own: an initialized object whose write cursor is *)
(* anywhere in [0, capacity) and whose delay buffer holds earlier content  *)
(* receives one call with 0 <= len <= capacity samples.                    *)

FillGains == {Half, One, IntR(2)}

\* an object whose cells hold pairwise different values and whose delay
\* cursor is at cursor
Marked(o, cursor) ==
    [o EXCEPT !.delayBufferWritePosition = cursor,
              !.delayBuffer.data =
                  [c \in Channels |->
                      [i \in 0 .. (o.delayBuffer.numSamples - 1) |-> IntR(10 * (c + 1) + i)]]]

DoFill(e, o, bufferLength, channel, delayBufferLength, src, srcStart, gain, junk) ==
    IF e = "Flanger"
    THEN Flanger_fillDelaybuffer(o, bufferLength, channel, delayBufferLength, src,
                                 srcStart, gain, junk)
    ELSE PitchShifter_fillDelaybuffer(o, bufferLength, channel, delayBufferLength, src,
                                      srcStart, gain, junk)

InitFill ==
    /\ engine \in {"Flanger", "PitchShifter"}
    /\ \E B \in BlockSizes, SR \in SampleRates :
       \E o \in {DoInitialize(engine, New(engine), B, SR)} :
       \E cursor \in 0 .. (o.delayBufferSize - 1), len \in 0 .. o.delayBufferSize :
       \E x \in [0 .. (len - 1) -> SampleValues] :
            /\ fl = IF engine = "Flanger" THEN Marked(o, cursor) ELSE FlangerNew
            /\ ps = IF engine = "Flanger" THEN PitchShifterNew ELSE Marked(o, cursor)
            /\ inbuffer = HostBuffer(len, [i \in 0 .. (len - 1) |-> x[i] + 1])
            /\ host = [SamplesPerBlockExpected |-> B, SampleRate |-> SR, fed |-> 0,
                       setterCalls |-> 0, calls |-> 0, N |-> len, channel |-> 0,
                       maxDelay |-> 0, gain |-> One, silent |-> FALSE, agreed |-> TRUE]
    /\ twin = New(engine)
    /\ twinbuffer = EmptyBuffer
    /\ pc = "fill"
    /\ hist = [c \in Channels |-> <<>>]
    /\ stored = [c \in Channels |-> <<>>]
    /\ last = NoCall
    /\ crashed = FALSE

Fill ==
    /\ pc = "fill"
    /\ \E channel \in Channels, gain \in FillGains, junk \in JunkValues :
       \E r \in {DoFill(engine, Obj, inbuffer.numSamples, channel,
                        Obj.delayBuffer.numSamples, inbuffer, 0, gain, junk)} :
            /\ SetObj(r.f)
            /\ last' = [kind |-> "fill", channel |-> channel, gain |-> gain,
                        length |-> inbuffer.numSamples, samples |-> <<>>,
                        written |-> r.written, before |-> Obj]
    /\ pc' = "filled"
    /\ UNCHANGED <<engine, twin, inbuffer, twinbuffer, host, hist, stored, crashed>>

NextFill == Fill

SpecFill == InitFill /\ [][NextFill]_vars

\* C2: fillDelaybuffer with 0 <= cursor < capacity and 0 <= len <= capacity
\* sets cell (cursor + k) mod capacity of the channel to gain * samples[k]
\* for every k in [0, len) and changes nothing else: not another cell of the
\* channel, not the other channel, not the write cursor nor another member.
FillWritesRun ==
    pc = "filled" =>
        LET b == last.before
            cap == b.delayBuffer.numSamples
            cur == b.delayBufferWritePosition
            c == last.channel
            run == {(cur + k) % cap : k \in 0 .. (last.length - 1)}
        IN  /\ \A k \in 0 .. (last.length - 1) :
                Obj.delayBuffer.data[c][(cur + k) % cap]
                    = RMul(last.gain, inbuffer.data[c][k])
            /\ \A i \in (0 .. (cap - 1)) \ run :
                Obj.delayBuffer.data[c][i] = b.delayBuffer.data[c][i]
            /\ \A c2 \in Channels \ {c} :
                Obj.delayBuffer.data[c2] = b.delayBuffer.data[c2]
            /\ Obj.delayBufferWritePosition = cur
            /\ Obj = [b EXCEPT !.delayBuffer.data[c] = Obj.delayBuffer.data[c]]

\* C2 witness: a run of at least two samples that passed the buffer tail
\* and continued at index 0, written with a gain other than 1
FillWitness ==
    /\ pc = "filled"
    /\ last.length >= 2
    /\ last.before.delayBufferWritePosition > 0
    /\ last.before.delayBufferWritePosition + last.length
          > last.before.delayBuffer.numSamples
    /\ last.gain = Half
    /\ 0 \in last.written
====
